---- MODULE Spec2Model ----
(***************************************************************************)
(* SegmentedControl (@mantine/core): controlled / uncontrolled selection,  *)
(* the active-indicator measurement effect, the rendered controls and the  *)
(* deferred `initialized` flag.  One action per handler; every action ends *)
(* with the render + commit (ref callbacks, effect) that React performs    *)
(* after the state or prop change it makes.                                *)
(***************************************************************************)
EXTENDS Integers, Sequences, FiniteSets

\* ---------------------------------------------------------------- bounds
MaxData == 2

\* ------------------------------------------------------------- constants
WRAPPER_PADDING == 4

Undefined == "undefined"
Null == "null"

\* values an entry of `data` may carry
Values == {"a", "b"}
\* what the optional `value` and `defaultValue` props may hold (a value of
\* Values is not a value of `data` when the list does not carry it)
PropValues == Values \cup {Undefined}

Dirs == {"ltr", "rtl"}
Envs == {"test", "production"}

\* `data` items: a plain string (str = TRUE, a string has no disabled flag)
\* or a SegmentedControlItem {value, label, disabled?}
Items ==
  { e \in [value : Values, disabled : BOOLEAN, str : BOOLEAN] :
      e.str => ~e.disabled }

\* data lists: at most MaxData items, item values pairwise distinct (they
\* are the React keys of the controls)
ListsOf(S) ==
  UNION { { d \in [1..n -> S] :
              \A i, j \in 1..n : d[i].value = d[j].value => i = j } :
          n \in 0..MaxData }

DataLists == ListsOf(Items)
\* the lists of plain strings only
StringLists == ListsOf({ e \in Items : e.str })

\* ------------------------------------------------- DOM layout (environment)
\* What the effect reads from the DOM for the label of an entry: the root's
\* padding and, per value, the box of the label and of its parent control.
Box(ol, ot, ow, rw, cw, ch) ==
  [offsetLeft |-> ol, offsetTop |-> ot, offsetWidth |-> ow, rectWidth |-> rw,
   clientWidth |-> cw, clientHeight |-> ch]

\* horizontal bar, symmetric padding, unscaled
PlainLayout ==
  [padding |-> [top |-> 4, left |-> 4, right |-> 4],
   box |-> [k \in Values |->
              IF k = "a" THEN Box(4, 4, 10, 10, 10, 6)
                         ELSE Box(14, 4, 10, 10, 10, 6)]]
\* asymmetric padding, root scaled by 2 (rect is twice the offset box)
ScaledLayout ==
  [padding |-> [top |-> 2, left |-> 2, right |-> 6],
   box |-> [k \in Values |->
              IF k = "a" THEN Box(2, 2, 8, 16, 8, 4)
                         ELSE Box(10, 2, 8, 16, 8, 4)]]
\* no padding in the computed style; second label not laid out
BareLayout ==
  [padding |-> [top |-> 0, left |-> 0, right |-> 0],
   box |-> [k \in Values |->
              IF k = "a" THEN Box(4, 4, 12, 12, 12, 5)
                         ELSE Box(0, 0, 0, 0, 0, 0)]]

Layouts == {PlainLayout, ScaledLayout, BareLayout}

\* content-box widths the resize observer may report
ContainerWidths == {0, 20, 30}

VARIABLES
  \* props
  data, value, defaultValue, disabled, readOnly,
  \* context / environment
  dir, env, layout,
  \* hook state
  uncontrolledValue, activePosition, initialized, containerRect,
  refs, timeoutRef, mounted,
  \* output of the last render
  dom,
  \* observation of the last step
  lastOp, lastTarget, onChangeCalls, onChangeArg, lastEffect, measured

vars ==
  << data, value, defaultValue, disabled, readOnly, dir, env, layout,
     uncontrolledValue, activePosition, initialized, containerRect,
     refs, timeoutRef, mounted, dom,
     lastOp, lastTarget, onChangeCalls, onChangeArg, lastEffect, measured >>

props == << data, value, defaultValue, disabled, readOnly >>
observed == << lastTarget, onChangeCalls, onChangeArg >>

\* ------------------------------------------------------------ pure parts

\* _data.find((item) => !item.disabled)?.value ?? data[0]?.value ?? null
RECURSIVE find(_, _)
find(d, i) ==
  IF i > Len(d) THEN Undefined
  ELSE IF ~d[i].disabled THEN d[i].value
  ELSE find(d, i + 1)

\* mutant: the filter on `disabled` is forgotten
finalValue_firstEntry(d) ==
  IF Len(d) = 0 THEN Null ELSE d[1].value

finalValue(d) ==
  LET found == find(d, 1)
      first == IF Len(d) = 0 \/ d[1].str THEN Undefined ELSE d[1].value
  IN  IF found # Undefined THEN found
      ELSE IF first # Undefined THEN first
      ELSE Null

\* useUncontrolled: the initial internal state
useUncontrolledInit(dv, fv) == IF dv # Undefined THEN dv ELSE fv

\* useUncontrolled: the value returned to the component
useUncontrolled(v, uv) == IF v # Undefined THEN v ELSE uv

_value == useUncontrolled(value, uncontrolledValue)

ZeroPosition == [width |-> 0, height |-> 0, translate |-> <<0, 0>>]
NoMeasure ==
  [key |-> Null, dir |-> "ltr", offsetLeft |-> 0, padLeft |-> 0,
   padRight |-> 0, containerWidth |-> 0, width |-> 0]

\* element.clientX * (element.offsetWidth / rect.width) || 0
\* (a box that is not laid out has rect.width = offsetWidth = 0: NaN || 0)
scaled(client, b) ==
  IF b.rectWidth = 0 THEN 0 ELSE (client * b.offsetWidth) \div b.rectWidth

\* getRootPadding(rootRef.current, WRAPPER_PADDING): a padding the computed
\* style does not give falls back to WRAPPER_PADDING
getRootPadding(lay) ==
  [top   |-> IF lay.padding.top = 0 THEN WRAPPER_PADDING ELSE lay.padding.top,
   left  |-> IF lay.padding.left = 0 THEN WRAPPER_PADDING ELSE lay.padding.left,
   right |-> IF lay.padding.right = 0 THEN WRAPPER_PADDING ELSE lay.padding.right]

\* mutant: rtl takes the right padding where the code takes the left one
measure_rtlPaddingSwapped(b, lay, cr, direction) ==
  LET rootPadding == getRootPadding(lay)
      width == scaled(b.clientWidth, b)
      height == scaled(b.clientHeight, b)
      offsetRight == cr.width - b.offsetLeft + rootPadding.right - width
      offsetLeft == b.offsetLeft - rootPadding.left
  IN  [width |-> width,
       height |-> height,
       translate |->
         << IF direction = "rtl" THEN offsetRight * (-1) ELSE offsetLeft,
            b.offsetTop - rootPadding.top >>]

\* the body of the effect for a mounted label element (lines 239-261)
measure(b, lay, cr, direction) ==
  LET rootPadding == getRootPadding(lay)
      width == scaled(b.clientWidth, b)
      height == scaled(b.clientHeight, b)
      offsetRight ==
        cr.width - b.offsetLeft
          + (IF direction = "rtl" THEN rootPadding.left ELSE rootPadding.right)
          - width
      offsetLeft ==
        b.offsetLeft
          - (IF direction = "rtl" THEN rootPadding.right ELSE rootPadding.left)
  IN  [width |-> width,
       height |-> height,
       translate |->
         << IF direction = "rtl" THEN offsetRight * (-1) ELSE offsetLeft,
            b.offsetTop - rootPadding.top >>]

\* ------------------------------------------------------- render + commit

control(item, v, dis, ro) ==
  [value |-> item.value,
   active |-> (v = item.value),
   inputDisabled |-> (dis \/ item.disabled),
   checked |-> (v = item.value),
   labelActive |-> (v = item.value /\ ~(dis \/ item.disabled)),
   labelDisabled |-> (dis \/ item.disabled),
   labelReadOnly |-> ro]

\* mutant: the component-level `disabled` does not reach the inputs
render_itemDisabledOnly(d, v, dis, ro) ==
  IF Len(d) = 0
    THEN [rendered |-> FALSE, indicator |-> FALSE, controls |-> << >>]
    ELSE [rendered |-> TRUE,
          indicator |-> (v # Null),
          controls |->
            [i \in 1..Len(d) |->
               [control(d[i], v, dis, ro) EXCEPT
                  !.inputDisabled = d[i].disabled]]]

\* mutant: the root is rendered for an empty list too
render_emptyRoot(d, v, dis, ro) ==
  [rendered |-> TRUE,
   indicator |-> (v # Null),
   controls |-> [i \in 1..Len(d) |-> control(d[i], v, dis, ro)]]

\* the controls and the root of one render (lines 279-357)
render(d, v, dis, ro) ==
  IF Len(d) = 0
    THEN [rendered |-> FALSE, indicator |-> FALSE, controls |-> << >>]
    ELSE [rendered |-> TRUE,
          indicator |-> (v # Null),
          controls |-> [i \in 1..Len(d) |-> control(d[i], v, dis, ro)]]

rendered(d) == { d[i].value : i \in 1..Len(d) }

\* ref callbacks at commit: refs.current[item.value] = node for every label
\* in the tree, = null for every label that left it; a key once written stays
commitRefs(r, d, isMounted) ==
  LET live == IF isMounted THEN rendered(d) ELSE {}
  IN  [k \in (DOMAIN r) \cup live |-> IF k \in live THEN "node" ELSE "null"]

\* the effect of lines 235-266, run with the committed refs
effect(v, r, d, cr, direction, lay, prev) ==
  IF v \in DOMAIN r /\ Len(d) > 0
    THEN IF r[v] = "node"
           THEN [position |-> measure(lay.box[v], lay, cr, direction),
                 how |-> "measured",
                 measured |->
                   [key |-> v, dir |-> direction,
                    offsetLeft |-> lay.box[v].offsetLeft,
                    padLeft |-> getRootPadding(lay).left,
                    padRight |-> getRootPadding(lay).right,
                    containerWidth |-> cr.width,
                    width |-> scaled(lay.box[v].clientWidth, lay.box[v])]]
           ELSE [position |-> ZeroPosition, how |-> "hidden",
                 measured |-> NoMeasure]
    ELSE [position |-> prev.position, how |-> "skipped",
          measured |-> prev.measured]

\* One render and commit with the new props and state.  `resized` is TRUE
\* when containerRect was replaced (a new object is a changed dependency).
commit(d, v, dis, ro, direction, uv, cr, resized) ==
  LET nv == useUncontrolled(v, uv)
      r == commitRefs(refs, d, TRUE)
      prev == [position |-> activePosition, measured |-> measured]
      depsChanged == nv # _value \/ resized \/ direction # dir
      e == IF depsChanged
             THEN effect(nv, r, d, cr, direction, layout, prev)
             ELSE [position |-> activePosition, how |-> "notrun",
                   measured |-> measured]
  IN  /\ dom' = render(d, nv, dis, ro)
      /\ refs' = r
      /\ activePosition' = e.position
      /\ lastEffect' = e.how
      /\ measured' = e.measured

\* ------------------------------------------------------------------ Init
\* The state after the first render and commit, for props and environment
\* drawn from the given sets.
Mount(dataS, valueS, defaultS, flagS, dirS, envS, layoutS) ==
  /\ data \in dataS
  /\ value \in valueS
  /\ defaultValue \in defaultS
  /\ disabled \in flagS
  /\ readOnly \in flagS
  /\ dir \in dirS
  /\ env \in envS
  /\ layout \in layoutS
  /\ uncontrolledValue = useUncontrolledInit(defaultValue, finalValue(data))
  /\ containerRect = [width |-> 0]
  /\ initialized = FALSE
  /\ timeoutRef = "pending"
  /\ mounted = TRUE
  /\ refs = commitRefs(<< >>, data, TRUE)
  /\ dom = render(data, _value, disabled, readOnly)
  /\ LET e == effect(_value, refs, data, containerRect, dir, layout,
                     [position |-> ZeroPosition, measured |-> NoMeasure])
     IN  /\ activePosition = e.position
         /\ lastEffect = e.how
         /\ measured = e.measured
  /\ lastOp = "mount"
  /\ lastTarget = Null
  /\ onChangeCalls = 0
  /\ onChangeArg = Null

\* --------------------------------------------------------------- actions

quiet == onChangeCalls' = 0 /\ onChangeArg' = Null /\ lastTarget' = Null

noRender ==
  UNCHANGED << uncontrolledValue, dom, refs, activePosition, lastEffect,
               measured >>

\* useUncontrolled: the change handler returned to the component.  Controlled:
\* it is the onChange prop itself.  Uncontrolled: it stores the value and
\* then calls onChange.
handleValueChange(val) ==
  /\ onChangeCalls' = 1
  /\ onChangeArg' = val
  /\ IF value # Undefined
       THEN noRender
       ELSE /\ uncontrolledValue' = val
            /\ commit(data, value, disabled, readOnly, dir, val,
                      containerRect, FALSE)

\* mutant: the handler passes the current value, not the item's
onInputChange_passesCurrent(item) ==
  IF ~readOnly
    THEN handleValueChange(_value)
    ELSE onChangeCalls' = 0 /\ onChangeArg' = Null /\ noRender

\* mutant: the handler never reaches handleValueChange
onInputChange_dropsCall(item) ==
  onChangeCalls' = 0 /\ onChangeArg' = Null /\ noRender

\* mutant: the readOnly guard is forgotten
onInputChange_ignoresReadOnly(item) ==
  handleValueChange(item.value)

\* mutant: the readOnly guard is inverted
onInputChange_readOnlyInverted(item) ==
  IF readOnly
    THEN handleValueChange(item.value)
    ELSE onChangeCalls' = 0 /\ onChangeArg' = Null /\ noRender

\* onChange={() => !readOnly && handleValueChange(item.value)}  (line 293)
onInputChange(item) ==
  IF ~readOnly
    THEN handleValueChange(item.value)
    ELSE onChangeCalls' = 0 /\ onChangeArg' = Null /\ noRender

\* a change event on the radio input of the i-th control (pointer or arrow
\* key): the browser sends none to a disabled input nor to the checked one
Change(i) ==
  /\ mounted
  /\ dom.rendered
  /\ i \in DOMAIN dom.controls
  /\ ~dom.controls[i].inputDisabled
  /\ ~dom.controls[i].checked
  /\ lastOp' = "change"
  /\ lastTarget' = dom.controls[i].value
  /\ onInputChange(data[i])
  /\ UNCHANGED << props, dir, env, layout, initialized, containerRect,
                  timeoutRef, mounted >>

\* the parent renders the component with another `value`
SetValue(v) ==
  /\ mounted
  /\ v # value
  /\ value' = v
  /\ commit(data, v, disabled, readOnly, dir, uncontrolledValue,
            containerRect, FALSE)
  /\ lastOp' = "props"
  /\ quiet
  /\ UNCHANGED << data, defaultValue, disabled, readOnly, dir, env, layout,
                  uncontrolledValue, initialized, containerRect, timeoutRef,
                  mounted >>

\* ... with another `defaultValue` (read by useUncontrolled at mount only)
SetDefaultValue(v) ==
  /\ mounted
  /\ v # defaultValue
  /\ defaultValue' = v
  /\ commit(data, value, disabled, readOnly, dir, uncontrolledValue,
            containerRect, FALSE)
  /\ lastOp' = "props"
  /\ quiet
  /\ UNCHANGED << data, value, disabled, readOnly, dir, env, layout,
                  uncontrolledValue, initialized, containerRect, timeoutRef,
                  mounted >>

\* ... with another `data`
SetData(d) ==
  /\ mounted
  /\ d # data
  /\ data' = d
  /\ commit(d, value, disabled, readOnly, dir, uncontrolledValue,
            containerRect, FALSE)
  /\ lastOp' = "props"
  /\ quiet
  /\ UNCHANGED << value, defaultValue, disabled, readOnly, dir, env, layout,
                  uncontrolledValue, initialized, containerRect, timeoutRef,
                  mounted >>

\* ... with `disabled` toggled
SetDisabled ==
  /\ mounted
  /\ disabled' = ~disabled
  /\ commit(data, value, ~disabled, readOnly, dir, uncontrolledValue,
            containerRect, FALSE)
  /\ lastOp' = "props"
  /\ quiet
  /\ UNCHANGED << data, value, defaultValue, readOnly, dir, env, layout,
                  uncontrolledValue, initialized, containerRect, timeoutRef,
                  mounted >>

\* ... with `readOnly` toggled
SetReadOnly ==
  /\ mounted
  /\ readOnly' = ~readOnly
  /\ commit(data, value, disabled, ~readOnly, dir, uncontrolledValue,
            containerRect, FALSE)
  /\ lastOp' = "props"
  /\ quiet
  /\ UNCHANGED << data, value, defaultValue, disabled, dir, env, layout,
                  uncontrolledValue, initialized, containerRect, timeoutRef,
                  mounted >>

\* the direction context switches between ltr and rtl
SetDirection ==
  /\ mounted
  /\ dir' = IF dir = "ltr" THEN "rtl" ELSE "ltr"
  /\ commit(data, value, disabled, readOnly, dir', uncontrolledValue,
            containerRect, FALSE)
  /\ lastOp' = "direction"
  /\ quiet
  /\ UNCHANGED << props, env, layout, uncontrolledValue, initialized,
                  containerRect, timeoutRef, mounted >>

\* useResizeObserver: the observer reports the root's content box; the rect
\* is stored only while the root element is attached
Resize(w) ==
  /\ mounted
  /\ dom.rendered
  /\ containerRect' = [width |-> w]
  /\ commit(data, value, disabled, readOnly, dir, uncontrolledValue,
            containerRect', TRUE)
  /\ lastOp' = "resize"
  /\ quiet
  /\ UNCHANGED << props, dir, env, layout, uncontrolledValue, initialized,
                  timeoutRef, mounted >>

\* mutant: the environment check is forgotten
TimerFire_ignoresEnv ==
  /\ mounted
  /\ timeoutRef = "pending"
  /\ timeoutRef' = "none"
  /\ initialized' = TRUE
  /\ commit(data, value, disabled, readOnly, dir, uncontrolledValue,
            containerRect, FALSE)
  /\ lastOp' = "timer"
  /\ quiet
  /\ UNCHANGED << props, dir, env, layout, uncontrolledValue, containerRect,
                  mounted >>

\* useTimeout: the callback of the timer started at mount (lines 268-277)
TimerFire ==
  /\ mounted
  /\ timeoutRef = "pending"
  /\ timeoutRef' = "none"
  /\ initialized' = IF env # "test" THEN TRUE ELSE initialized
  /\ commit(data, value, disabled, readOnly, dir, uncontrolledValue,
            containerRect, FALSE)
  /\ lastOp' = "timer"
  /\ quiet
  /\ UNCHANGED << props, dir, env, layout, uncontrolledValue, containerRect,
                  mounted >>

\* the component is removed: effect cleanups run (the timer is cleared), the
\* ref callbacks are called with null
Unmount ==
  /\ mounted
  /\ mounted' = FALSE
  /\ timeoutRef' = "none"
  /\ refs' = commitRefs(refs, data, FALSE)
  /\ dom' = render(<< >>, _value, disabled, readOnly)
  /\ lastOp' = "unmount"
  /\ quiet
  /\ UNCHANGED << props, dir, env, layout, uncontrolledValue, activePosition,
                  initialized, containerRect, lastEffect, measured >>

\* --------------------------------------------------------- specifications

\* selection: every prop and every operation on the selection; one layout,
\* one direction (the geometry is the subject of SpecGeom, the timer of
\* SpecMount)
Init ==
  Mount(DataLists, PropValues, PropValues, BOOLEAN, {"ltr"}, {"production"},
        {PlainLayout})

Next ==
  \/ \E i \in 1..MaxData : Change(i)
  \/ \E v \in PropValues : SetValue(v)
  \/ \E v \in PropValues : SetDefaultValue(v)
  \/ \E d \in DataLists : SetData(d)
  \/ SetDisabled
  \/ SetReadOnly
  \/ Unmount

Spec == Init /\ [][Next]_vars

\* indicator geometry: every layout, direction and container width, enabled
\* lists of plain strings
InitGeom ==
  Mount(StringLists, PropValues, {Undefined}, {FALSE}, Dirs, {"production"},
        Layouts)

NextGeom ==
  \/ \E i \in 1..MaxData : Change(i)
  \/ \E v \in PropValues : SetValue(v)
  \/ \E d \in StringLists : SetData(d)
  \/ SetDirection
  \/ \E w \in ContainerWidths : Resize(w)
  \/ Unmount

SpecGeom == InitGeom /\ [][NextGeom]_vars

\* mount and the deferred flag: every prop and environment at mount; the
\* timer callback runs once the delay has passed unless the component is
\* removed first
InitMount ==
  Mount(DataLists, PropValues, PropValues, BOOLEAN, Dirs, Envs, Layouts)

NextMount ==
  \/ TimerFire
  \/ SetReadOnly
  \/ Unmount

SpecMount == InitMount /\ [][NextMount]_vars /\ WF_vars(TimerFire)

\* ---------------------------------------------------------------- claims

\* the entry of `data` a control was rendered from is enabled
enabled(i) == ~(disabled \/ data[i].disabled)

\* C1: a change event on an enabled control while not readOnly invokes
\* onChange exactly once, with the value of that control; no other step
\* (a prop update, a re-render, removal) invokes onChange.
C1_OnChangeOncePerUserChange ==
  /\ (lastOp = "change" /\ ~readOnly)
       => (onChangeCalls = 1 /\ onChangeArg = lastTarget)
  /\ lastOp # "change" => (onChangeCalls = 0 /\ onChangeArg = Null)

C1_Witness ==
  /\ lastOp = "change"
  /\ ~readOnly
  /\ onChangeCalls = 1
  /\ onChangeArg = lastTarget
  /\ value # Undefined

\* C2 as stated: after the user selects a value (not readOnly, entry
\* enabled) the tracked value _value equals it, whether the selection is
\* supplied through `value` or held internally.
C2_TrackedValueAlwaysFollows ==
  (lastOp = "change" /\ ~readOnly) => _value = lastTarget

\* C2 amended: when no `value` prop is supplied, after the user selects a
\* value the tracked value equals it and exactly the control of that value
\* is checked; when `value` is supplied the tracked value stays the prop.
C2_UncontrolledValueFollows ==
  (lastOp = "change" /\ ~readOnly)
    => IF value = Undefined
         THEN /\ _value = lastTarget
              /\ \A i \in DOMAIN dom.controls :
                   dom.controls[i].checked
                     <=> dom.controls[i].value = lastTarget
         ELSE \A i \in DOMAIN dom.controls :
                dom.controls[i].checked <=> dom.controls[i].value = value

C2_Witness ==
  /\ lastOp = "change"
  /\ ~readOnly
  /\ value = Undefined
  /\ _value = lastTarget
  /\ \E i \in DOMAIN dom.controls : dom.controls[i].checked

\* C4: while readOnly is set, a change event on a control neither invokes
\* onChange nor changes the selected value, and the controls of a non-empty
\* list are still rendered (their labels marked read-only).
C4_ReadOnlyBlocksChange ==
  /\ [](lastOp = "change" /\ readOnly => onChangeCalls = 0)
  /\ [][(lastOp' = "change" /\ readOnly')
          => (_value' = _value /\ uncontrolledValue' = uncontrolledValue)]_vars
  /\ []((mounted /\ readOnly /\ Len(data) > 0)
          => /\ dom.rendered
             /\ Len(dom.controls) = Len(data)
             /\ \A i \in DOMAIN dom.controls : dom.controls[i].labelReadOnly)

C4_Witness ==
  /\ lastOp = "change"
  /\ readOnly
  /\ lastTarget # Null
  /\ lastTarget # _value
  /\ onChangeCalls = 0

\* C5: a disabled entry (its own flag or the component's) never receives a
\* change, so no interaction selects it or passes its value to onChange; it
\* is still rendered, with a disabled input and a label never marked active.
C5_DisabledNeverSelected ==
  /\ lastOp = "change"
       => \E i \in DOMAIN data : data[i].value = lastTarget /\ enabled(i)
  /\ mounted
       => /\ Len(dom.controls) = Len(data)
          /\ \A i \in DOMAIN data :
               /\ dom.controls[i].value = data[i].value
               /\ ~enabled(i)
                    => (dom.controls[i].inputDisabled
                        /\ dom.controls[i].labelDisabled
                        /\ ~dom.controls[i].labelActive)

C5_Witness ==
  /\ lastOp = "change"
  /\ \E i \in DOMAIN data :
       /\ data[i].disabled
       /\ data[i].value = _value
       /\ dom.controls[i].checked
       /\ ~dom.controls[i].labelActive

\* C6 as stated: the selected value is always null or the value of an entry
\* of the current data, and it changes only by user interaction, never
\* while readOnly.
C6_SelectedAlwaysInData ==
  /\ [](mounted
          => (_value = Null \/ \E i \in DOMAIN data : data[i].value = _value))
  /\ [][_value' # _value => (lastOp' = "change" /\ ~readOnly)]_vars

\* C6 amended: while no `value` prop is supplied, the selected value changes
\* only by a change event on an enabled control, never while readOnly, and
\* the value it takes is the value of an entry of the current data.
C6_UncontrolledChangesByUserOnly ==
  [][(value = Undefined /\ value' = Undefined /\ _value' # _value)
       => /\ lastOp' = "change"
          /\ ~readOnly
          /\ _value' = lastTarget'
          /\ \E i \in DOMAIN data : data[i].value = _value' /\ enabled(i)]_vars

C6_Witness ==
  /\ lastOp = "change"
  /\ value = Undefined
  /\ uncontrolledValue = onChangeArg
  /\ onChangeCalls = 1
  /\ Len(data) = 2

\* C8: an empty `data` renders nothing (no root, no indicator, no control)
\* whatever the other props, and no change event, hence no onChange, can
\* come from it.
C8_EmptyDataRendersNothing ==
  Len(data) = 0
    => /\ ~dom.rendered
       /\ ~dom.indicator
       /\ dom.controls = << >>
       /\ lastOp # "change"
       /\ onChangeCalls = 0

C8_Witness ==
  /\ Len(data) = 0
  /\ mounted
  /\ lastOp = "props"
  /\ value # Undefined
  /\ ~dom.rendered

\* first entry of `data` that is not disabled, 0 when there is none
firstEnabled ==
  IF \E i \in DOMAIN data : ~data[i].disabled
    THEN CHOOSE i \in DOMAIN data :
           ~data[i].disabled /\ \A j \in 1..(i - 1) : data[j].disabled
    ELSE 0

unseeded ==
  lastOp = "mount" /\ value = Undefined /\ defaultValue = Undefined

\* C3 as stated: with neither `value` nor `defaultValue`, the initially
\* selected value is the value of the first entry that is not disabled, for
\* every non-empty data.
C3_FirstEnabledForEveryList ==
  (unseeded /\ Len(data) > 0)
    => (firstEnabled # 0 /\ _value = data[firstEnabled].value)

\* C3 amended: with neither `value` nor `defaultValue`, the initially
\* selected value is the value of the first entry that is not disabled when
\* the list has one; when every entry is disabled it is the value of the
\* first entry; it is null for an empty list.
C3_FirstEnabledElseFirst ==
  unseeded
    => _value = IF firstEnabled # 0 THEN data[firstEnabled].value
                ELSE IF Len(data) > 0 THEN data[1].value
                ELSE Null

C3_Witness ==
  /\ unseeded
  /\ Len(data) = 2
  /\ data[1].disabled
  /\ ~data[2].disabled
  /\ _value = data[2].value
  /\ dom.controls[2].checked

\* C10: `initialized` is false at mount; only the timer callback changes
\* it, only to true and only outside the test environment; once true it
\* stays true; outside the test environment it eventually becomes true
\* unless the component is removed; removal releases the timer and nothing
\* of the component's state changes afterwards.
C10_InitializedOnFirstPaintOnly ==
  /\ [](lastOp = "mount" => ~initialized)
  /\ [][initialized' # initialized
          => (lastOp' = "timer" /\ env # "test" /\ initialized')]_vars
  /\ [](env = "test" => ~initialized)
  /\ (env # "test" => <>(initialized \/ ~mounted))
  /\ [](~mounted => timeoutRef = "none")
  /\ [][~mounted
          => UNCHANGED << initialized, uncontrolledValue, activePosition,
                          containerRect, timeoutRef, mounted >>]_vars

C10_Witness ==
  /\ initialized
  /\ mounted
  /\ timeoutRef = "none"
  /\ env # "test"
  /\ lastOp = "timer"

\* C7: when the selected value matches no rendered control and the effect
\* has run in the last commit, the indicator is hidden: its width and its
\* height are 0 (the reset of lines 262-264 also zeroes the translate).
C7_IndicatorHiddenWithoutControl ==
  (/\ mounted
   /\ dom.rendered
   /\ lastEffect \in {"measured", "hidden", "skipped"}
   /\ \A i \in DOMAIN dom.controls : dom.controls[i].value # _value)
    => (activePosition.width = 0 /\ activePosition.height = 0)

\* the measured label lies inside the container's content box
inside ==
  /\ measured.padLeft <= measured.offsetLeft
  /\ measured.offsetLeft + measured.width
       <= measured.padLeft + measured.containerWidth

\* C9: for a measured label, ltr gives the horizontal translate
\* offsetLeft - left padding (>= 0 inside the container), rtl gives
\* -(container width - offsetLeft + left padding - width) (<= 0 inside the
\* container); switching the direction with the same measured box leaves
\* width, height and the vertical translate as they were.
C9_DirectionMirrorsOffset ==
  /\ [](measured.key # Null
          => /\ activePosition.width = measured.width
             /\ measured.dir = "ltr"
                  => /\ activePosition.translate[1]
                          = measured.offsetLeft - measured.padLeft
                     /\ inside => activePosition.translate[1] >= 0
             /\ measured.dir = "rtl"
                  => /\ activePosition.translate[1]
                          = 0 - (measured.containerWidth - measured.offsetLeft
                                   + measured.padLeft - measured.width)
                     /\ inside => activePosition.translate[1] <= 0)
  /\ [][(/\ lastOp' = "direction"
         /\ lastEffect' = "measured"
         /\ measured.key = measured'.key
         /\ measured.offsetLeft = measured'.offsetLeft
         /\ measured.width = measured'.width
         /\ measured.containerWidth = measured'.containerWidth
         /\ measured.dir # measured'.dir)
          => /\ activePosition'.width = activePosition.width
             /\ activePosition'.height = activePosition.height
             /\ activePosition'.translate[2] = activePosition.translate[2]]_vars

C9_Witness ==
  /\ lastOp = "direction"
  /\ lastEffect = "measured"
  /\ measured.dir = "rtl"
  /\ inside
  /\ measured.padLeft # measured.padRight
  /\ activePosition.translate[1] < 0

====
